---- MODULE Spec2Model ----
(***************************************************************************)
(* Water travel-time estimation of flow_model.py: corrosion-reduced pipe   *)
(* diameter, Hazen-Williams velocity per slope section, accumulation of    *)
(* section times and the pump adjustment.                                   *)
(*                                                                         *)
(* Python floats are modelled in fixed point.  Units:                      *)
(*   diameters        micrometres           (1 m    = 1000000)             *)
(*   slopes           parts per million     (1.0    = 1000000)             *)
(*   velocities       centimetres / second  (the 2 decimals of round(V,2)) *)
(*   distances        metres                                               *)
(*   times, pump flow thousandths           (1 s    = 1000)                *)
(*   corrosion rates  micrometres / year    (the table's mm/year * 1000)   *)
(* A time is <<"fin", n>> or <<"inf", 0>> (float('inf')).                  *)
(***************************************************************************)
EXTENDS Integers, Sequences, FiniteSets, TLC

(***************************************************************************)
(* Fixed-point real arithmetic (for ** with a fractional exponent).        *)
(***************************************************************************)
ONE == 2^15

Pow2(k) == 2^k

Abs(x) == IF x < 0 THEN -x ELSE x

Max(a, b) == IF a >= b THEN a ELSE b

\* a / b rounded to the nearest integer (b > 0), halves away from zero
RoundDiv(a, b) == IF a >= 0 THEN (a + b \div 2) \div b
                            ELSE -(((-a) + b \div 2) \div b)

\* fixed-point product, rounded to nearest
FMul(a, b) == (a * b + ONE \div 2) \div ONE

\* atanh(t) = t + t^3/3 + t^5/5 + ...   for 0 <= t <= 1/3
AtanhSeries(t) ==
    LET t2  == FMul(t, t)
        t3  == FMul(t, t2)
        t5  == FMul(t3, t2)
        t7  == FMul(t5, t2)
        t9  == FMul(t7, t2)
        t11 == FMul(t9, t2)
    IN  t + RoundDiv(t3, 3) + RoundDiv(t5, 5) + RoundDiv(t7, 7)
          + RoundDiv(t9, 9) + RoundDiv(t11, 11)

\* ln(m / ONE) for ONE <= m <= 2 * ONE
LnMantissa(m) == 2 * AtanhSeries(RoundDiv((m - ONE) * ONE, m + ONE))

LN2 == LnMantissa(2 * ONE)

RECURSIVE Log2Floor(_)
Log2Floor(n) == IF n < 2 THEN 0 ELSE 1 + Log2Floor(n \div 2)

\* ln(n) * ONE for an integer n >= 1
LnInt(n) ==
    LET k == Log2Floor(n)
        m == IF k <= 15 THEN n * Pow2(15 - k) ELSE n \div Pow2(k - 15)
    IN  k * LN2 + LnMantissa(m)

\* exp(r / ONE) * ONE for 0 <= r < LN2
ExpSeries(r) ==
    LET r2 == FMul(r, r)
        r3 == FMul(r2, r)
        r4 == FMul(r3, r)
        r5 == FMul(r4, r)
        r6 == FMul(r5, r)
        r7 == FMul(r6, r)
    IN  ONE + r + RoundDiv(r2, 2) + RoundDiv(r3, 6) + RoundDiv(r4, 24)
            + RoundDiv(r5, 120) + RoundDiv(r6, 720) + RoundDiv(r7, 5040)

\* exp(x / ONE) * ONE for any x (x \div LN2 is the floor)
Exp(x) ==
    LET k == x \div LN2
        e == ExpSeries(x - k * LN2)
    IN  IF k >= 0 THEN e * Pow2(k) ELSE e \div Pow2(-k)

(***************************************************************************)
(* Material tables.                                                        *)
(***************************************************************************)
ROUGHNESS_COEFFICIENTS ==
    ("Cast Iron" :> 100) @@ ("Ductile Iron" :> 110) @@ ("Steel" :> 120) @@
    ("Galvanized Steel" :> 110) @@ ("Stainless Steel" :> 140) @@
    ("Copper" :> 150) @@ ("PVC/Plastic" :> 155) @@ ("Concrete" :> 120)

\* micrometres / year: 0.1, 0.05, 0.2, 0.15, 0.02, 0.01, 0.0, 0.005 mm/year
CORROSION_RATES ==
    ("Cast Iron" :> 100) @@ ("Ductile Iron" :> 50) @@ ("Steel" :> 200) @@
    ("Galvanized Steel" :> 150) @@ ("Stainless Steel" :> 20) @@
    ("Copper" :> 10) @@ ("PVC/Plastic" :> 0) @@ ("Concrete" :> 5)

\* dict.get(key, default)
Get(table, key, default) == IF key \in DOMAIN table THEN table[key] ELSE default

(***************************************************************************)
(* calculate_velocity: the value returned, in cm/s, or the exception.      *)
(*   S == 0 returns 0.  S < 0: S ** 0.54 is a complex number, so Q and V   *)
(*   are complex and round(V, 2) raises TypeError.  S > 0:                 *)
(*   V = (C * D^2.63 * S^0.54 / 278.5) / (pi * (D/2)^2), computed from its *)
(*   logarithm; round(V, 2) is the nearest whole number of cm/s.           *)
(***************************************************************************)
LnMetres(d) == LnInt(d) - LnInt(1000000)

LnQ(diameter, slope, roughness) ==
    LnInt(roughness) + RoundDiv(263 * LnMetres(diameter), 100)
        + RoundDiv(54 * LnMetres(slope), 100) - (LnInt(2785) - LnInt(10))

LnA(diameter) ==
    (LnInt(355) - LnInt(113)) + 2 * (LnMetres(diameter) - LN2)

Round2(lnV) == (Exp(lnV + LnInt(100)) + ONE \div 2) \div ONE

calculate_velocity(diameter, slope, roughness) ==
    IF slope = 0 THEN [exc |-> "none", v |-> 0]
    ELSE IF slope < 0 \/ diameter < 0 THEN [exc |-> "TypeError", v |-> 0]
    ELSE IF diameter = 0 THEN [exc |-> "ZeroDivisionError", v |-> 0]
    ELSE [exc |-> "none",
          v   |-> Round2(LnQ(diameter, slope, roughness) - LnA(diameter))]

(***************************************************************************)
(* calculate_pipe_diameter_reduction.  round(x, 4) is the nearest multiple *)
(* of 100 micrometres; a value exactly half way is rounded by its binary   *)
(* representation, up or down (tieUp).                                     *)
(***************************************************************************)
Round4(x, tieUp) ==
    LET r == x % 100
    IN  IF r < 50 THEN x - r
        ELSE IF r > 50 THEN x - r + 100
        ELSE IF tieUp THEN x - r + 100 ELSE x - r

\* without the 0.01 m floor
calculate_pipe_diameter_reduction_nofloor(material, age, initial_diameter, tieUp) ==
    LET corrosion_rate == Get(CORROSION_RATES, material, 100)
        diameter_loss  == 2 * (corrosion_rate * age)
    IN  Round4(initial_diameter - diameter_loss, tieUp)

\* the loss of one wall only
calculate_pipe_diameter_reduction_onewall(material, age, initial_diameter, tieUp) ==
    LET corrosion_rate   == Get(CORROSION_RATES, material, 100)
        diameter_loss    == corrosion_rate * age
        reduced_diameter == Max(initial_diameter - diameter_loss, 10000)
    IN  Round4(reduced_diameter, tieUp)

\* the loss added instead of subtracted
calculate_pipe_diameter_reduction_gain(material, age, initial_diameter, tieUp) ==
    LET corrosion_rate   == Get(CORROSION_RATES, material, 100)
        diameter_loss    == 2 * (corrosion_rate * age)
        reduced_diameter == Max(initial_diameter + diameter_loss, 10000)
    IN  Round4(reduced_diameter, tieUp)

calculate_pipe_diameter_reduction(material, age, initial_diameter, tieUp) ==
    LET corrosion_rate   == Get(CORROSION_RATES, material, 100)
        diameter_loss    == 2 * (corrosion_rate * age)
        reduced_diameter == Max(initial_diameter - diameter_loss, 10000)
    IN  Round4(reduced_diameter, tieUp)

(***************************************************************************)
(* Float arithmetic on times: float('inf') absorbs finite terms.           *)
(***************************************************************************)
Fin(n) == <<"fin", n>>

Inf == <<"inf", 0>>

IsInf(t) == t[1] = "inf"

\* the section time subtracted instead of added
TimeAdd_minus(t, u) == IF IsInf(t) \/ IsInf(u) THEN Inf ELSE Fin(t[2] - u[2])

\* t + u
TimeAdd(t, u) == IF IsInf(t) \/ IsInf(u) THEN Inf ELSE Fin(t[2] + u[2])

\* t - x for a finite x
TimeSub(t, x) == IF IsInf(t) THEN Inf ELSE Fin(t[2] - x)

\* a section without flow left out of the sum
SectionTime_skipped(slope_distance, velocity) ==
    IF velocity > 0 THEN Fin(RoundDiv(slope_distance * 100000, velocity))
    ELSE Fin(0)

\* slope_distance / velocity if velocity > 0 else float('inf'):
\* metres / (cm/s), in thousandths of a second
SectionTime(slope_distance, velocity) ==
    IF velocity > 0 THEN Fin(RoundDiv(slope_distance * 100000, velocity))
    ELSE Inf

(***************************************************************************)
(* Inputs typed at the prompts.                                            *)
(***************************************************************************)
MaxSegments == 2

MaxPumps == 2

MaxAge == 30

Materials == DOMAIN ROUGHNESS_COEFFICIENTS \cup {"Unobtainium"}

SeqsUpTo(S, n) == UNION {[1..k -> S] : k \in 0..n}

\* (slope, distance): slopes -1%, 0, 0.01%, 1%; one distance is negative
SlopeChoices == {<<-10000, 120>>, <<0, 120>>, <<100, 120>>, <<10000, 120>>,
                 <<10000, -100>>}

\* (flowrate, position): 0.05 and 2.0 m3/s
PumpChoices == {<<50, 0>>, <<2000, 500>>}

\* routes of several sections and pumps, for a few pipes
TraversalInputs ==
    [material         : {"Steel", "Unobtainium"},
     age              : {10},
     initial_diameter : {-500000, 500000},
     total_distance   : {1000},
     slopes           : SeqsUpTo(SlopeChoices, MaxSegments),
     pumps            : SeqsUpTo(PumpChoices, MaxPumps)]

\* every material, age and a range of diameters, for a few routes
CorrosionInputs ==
    [material         : Materials,
     age              : -1..MaxAge,
     initial_diameter : {5000, 10000, 20000, 123450, 123460, 500000},
     total_distance   : {1000},
     slopes           : {<<(<<10000, 120>>)>>, <<(<<50000, 120>>), (<<0, 120>>)>>},
     pumps            : {<<(<<50, 0>>)>>}]

Inputs == TraversalInputs \cup CorrosionInputs

(***************************************************************************)
(* main().                                                                 *)
(***************************************************************************)
VARIABLES
    pc,                 \* "input", "corrode", "first", "slopes", "pumps", "done", "raised"
    stdin,              \* what the user types
    material, age, initial_diameter, total_distance, slopes, pumps,
    reduced_diameter, roughness,
    total_time, remaining_distance, current_diameter, current_velocity,
    i,                  \* the slope section the first loop is at
    j,                  \* the pump the second loop is at
    velocity, section_time,
    exc,                \* the exception raised, "none" if none
    data                \* the record written to water_travel_time.json

inputVars == <<material, age, initial_diameter, total_distance, slopes, pumps>>

pipeVars == <<reduced_diameter, roughness, current_diameter>>

loopVars == <<total_time, remaining_distance, i, j, velocity, section_time>>

vars == <<pc, stdin, inputVars, pipeVars, loopVars, current_velocity, exc, data>>

NoData == [pipe_material |-> "", pipe_age |-> 0, initial_diameter_meters |-> 0,
           reduced_diameter_meters |-> 0, total_distance_meters |-> 0,
           travel_time_seconds |-> Fin(0)]

Init ==
    /\ pc = "input"
    /\ stdin \in Inputs
    /\ material = "" /\ age = 0 /\ initial_diameter = 0 /\ total_distance = 0
    /\ slopes = << >> /\ pumps = << >>
    /\ reduced_diameter = 0 /\ roughness = 0 /\ current_diameter = 0
    /\ total_time = Fin(0) /\ remaining_distance = 0 /\ i = 0 /\ j = 0
    /\ velocity = 0 /\ section_time = Fin(0)
    /\ current_velocity = 0
    /\ exc = "none"
    /\ data = NoData

\* an unrecognized material replaced by "Steel"
get_user_input_steel ==
    /\ pc = "input"
    /\ material' = IF stdin.material \in DOMAIN ROUGHNESS_COEFFICIENTS
                   THEN stdin.material ELSE "Steel"
    /\ age' = stdin.age
    /\ initial_diameter' = stdin.initial_diameter
    /\ total_distance' = stdin.total_distance
    /\ slopes' = stdin.slopes
    /\ pumps' = stdin.pumps
    /\ pc' = "corrode"
    /\ UNCHANGED <<stdin, pipeVars, loopVars, current_velocity, exc, data>>

\* get_user_input(): an unrecognized material is replaced by "Cast Iron"
get_user_input ==
    /\ pc = "input"
    /\ material' = IF stdin.material \in DOMAIN ROUGHNESS_COEFFICIENTS
                   THEN stdin.material ELSE "Cast Iron"
    /\ age' = stdin.age
    /\ initial_diameter' = stdin.initial_diameter
    /\ total_distance' = stdin.total_distance
    /\ slopes' = stdin.slopes
    /\ pumps' = stdin.pumps
    /\ pc' = "corrode"
    /\ UNCHANGED <<stdin, pipeVars, loopVars, current_velocity, exc, data>>

\* main, lines 101-106
Corrode ==
    /\ pc = "corrode"
    /\ \E tieUp \in BOOLEAN :
         reduced_diameter' =
             calculate_pipe_diameter_reduction(material, age, initial_diameter, tieUp)
    /\ roughness' = Get(ROUGHNESS_COEFFICIENTS, material, 100)
    /\ total_time' = Fin(0)
    /\ remaining_distance' = total_distance
    /\ current_diameter' = reduced_diameter'
    /\ pc' = "first"
    /\ UNCHANGED <<stdin, inputVars, i, j, velocity, section_time,
                   current_velocity, exc, data>>

\* main, line 107: slopes[0][0] raises IndexError on an empty list
FirstVelocity ==
    /\ pc = "first"
    /\ LET r == IF slopes = << >> THEN [exc |-> "IndexError", v |-> 0]
                ELSE calculate_velocity(current_diameter, slopes[1][1], roughness)
       IN  /\ exc' = r.exc
           /\ current_velocity' = r.v
           /\ pc' = IF r.exc = "none" THEN "slopes" ELSE "raised"
           /\ i' = IF r.exc = "none" THEN 1 ELSE i
    /\ UNCHANGED <<stdin, inputVars, pipeVars, total_time, remaining_distance,
                   j, velocity, section_time, data>>

\* the diameter corroded again at every section
SlopeStep_rederived ==
    /\ pc = "slopes"
    /\ i <= Len(slopes)
    /\ LET slope          == slopes[i][1]
           slope_distance == slopes[i][2]
           r              == calculate_velocity(current_diameter, slope, roughness)
           t              == SectionTime(slope_distance, r.v)
       IN  IF r.exc = "none"
           THEN /\ velocity' = r.v
                /\ section_time' = t
                /\ total_time' = TimeAdd(total_time, t)
                /\ remaining_distance' = remaining_distance - slope_distance
                /\ i' = i + 1
                /\ j' = IF i = Len(slopes) THEN 1 ELSE j
                /\ pc' = IF i = Len(slopes) THEN "pumps" ELSE "slopes"
                /\ exc' = exc
                /\ current_diameter' =
                       calculate_pipe_diameter_reduction(material, age,
                                                         current_diameter, TRUE)
           ELSE /\ exc' = r.exc
                /\ pc' = "raised"
                /\ UNCHANGED <<loopVars, current_diameter>>
    /\ UNCHANGED <<stdin, inputVars, reduced_diameter, roughness,
                   current_velocity, data>>

\* main, lines 109-113: one iteration of the loop over slopes
SlopeStep ==
    /\ pc = "slopes"
    /\ i <= Len(slopes)
    /\ LET slope          == slopes[i][1]
           slope_distance == slopes[i][2]
           r              == calculate_velocity(current_diameter, slope, roughness)
           t              == SectionTime(slope_distance, r.v)
       IN  IF r.exc = "none"
           THEN /\ velocity' = r.v
                /\ section_time' = t
                /\ total_time' = TimeAdd(total_time, t)
                /\ remaining_distance' = remaining_distance - slope_distance
                /\ i' = i + 1
                /\ j' = IF i = Len(slopes) THEN 1 ELSE j
                /\ pc' = IF i = Len(slopes) THEN "pumps" ELSE "slopes"
                /\ exc' = exc
           ELSE /\ exc' = r.exc
                /\ pc' = "raised"
                /\ UNCHANGED loopVars
    /\ UNCHANGED <<stdin, inputVars, pipeVars, current_velocity, data>>

\* a pump counted only if the sections cover its position
PumpStep_positioned ==
    /\ pc = "pumps"
    /\ j <= Len(pumps)
    /\ LET pump_flowrate == pumps[j][1]
           pump_position == pumps[j][2]
       IN  total_time' = IF pump_position <= total_distance - remaining_distance
                         THEN TimeSub(total_time, pump_flowrate)
                         ELSE total_time
    /\ j' = j + 1
    /\ UNCHANGED <<pc, stdin, inputVars, pipeVars, remaining_distance, i,
                   velocity, section_time, current_velocity, exc, data>>

\* main, lines 115-116: one iteration of the loop over pumps
PumpStep ==
    /\ pc = "pumps"
    /\ j <= Len(pumps)
    /\ LET pump_flowrate == pumps[j][1]
       IN  total_time' = TimeSub(total_time, pump_flowrate)
    /\ j' = j + 1
    /\ UNCHANGED <<pc, stdin, inputVars, pipeVars, remaining_distance, i,
                   velocity, section_time, current_velocity, exc, data>>

\* main, lines 118-137: the results printed and appended to the log
Report ==
    /\ pc = "pumps"
    /\ j > Len(pumps)
    /\ data' = [pipe_material           |-> material,
                pipe_age                |-> age,
                initial_diameter_meters |-> initial_diameter,
                reduced_diameter_meters |-> reduced_diameter,
                total_distance_meters   |-> total_distance,
                travel_time_seconds     |-> total_time]
    /\ pc' = "done"
    /\ UNCHANGED <<stdin, inputVars, pipeVars, loopVars, current_velocity, exc>>

Next == get_user_input \/ Corrode \/ FirstVelocity \/ SlopeStep \/ PumpStep \/ Report

Spec == Init /\ [][Next]_vars

(***************************************************************************)
(* Properties.                                                             *)
(***************************************************************************)
\* the pipe has been corroded: reduced_diameter and roughness are set
Corroded == pc \notin {"input", "corrode"}

\* the sections 1 .. i-1 have been accumulated
Accumulating == pc \in {"slopes", "pumps", "done"}

Recognized == DOMAIN ROUGHNESS_COEFFICIENTS

\* the material's corrosion rate, Cast Iron's for an unrecognized material
BaseCorrosionRate(m) ==
    IF m \in DOMAIN CORROSION_RATES THEN CORROSION_RATES[m]
    ELSE CORROSION_RATES["Cast Iron"]

\* max(initial - 2 * rate * age, 0.01) of the typed inputs, unrounded
ExactDiameter ==
    Max(stdin.initial_diameter - 2 * BaseCorrosionRate(stdin.material) * stdin.age,
        10000)

\* C1: for every diameter > 0, every roughness and every slope <= 0, zero
\* and negative alike, the velocity operation returns 0 and raises no
\* error.  Stated of the first call (line 107), whose slope is slopes[0][0],
\* in a run whose pipe geometry is valid.
C1_NonPositiveSlopeGivesZero ==
    (/\ pc \in {"slopes", "pumps", "done", "raised"}
     /\ slopes # << >>
     /\ slopes[1][1] <= 0
     /\ initial_diameter > 0
     /\ current_diameter > 0)
        => (exc = "none" /\ current_velocity = 0)

\* C2: a section whose velocity is 0 has an infinite section time, and from
\* the step that accumulates it the running total is infinite, whatever
\* sections and pumps come before or after; so is the total reported.
C2_ZeroVelocityGivesInfiniteTotal ==
    Accumulating =>
        \A k \in 1..Len(slopes) :
            (k < i /\ calculate_velocity(current_diameter, slopes[k][1], roughness).v = 0)
                => /\ IsInf(total_time)
                   /\ (k = i - 1 => IsInf(section_time))
                   /\ (pc = "done" => IsInf(data.travel_time_seconds))

\* C2 witness: a finished run whose first section has no flow (slope 0),
\* followed by a section with flow and by a pump.
C2_Witness ==
    /\ pc = "done"
    /\ Len(slopes) = 2 /\ Len(pumps) >= 1
    /\ slopes[1][1] = 0
    /\ velocity > 0
    /\ IsInf(data.travel_time_seconds)

\* C3 as stated: for every material, age >= 0 and initial diameter > 0 the
\* effective diameter is <= the initial diameter and >= 0.01 m.
C3_WithinInitialAndFloor ==
    (Corroded /\ age >= 0 /\ initial_diameter > 0)
        => (reduced_diameter <= initial_diameter /\ reduced_diameter >= 10000)

\* C3 amended: for every material, age >= 0 and initial diameter > 0 the
\* effective diameter is >= 0.01 m and at most max(initial, 0.01 m) rounded
\* to 4 decimals: never more than 0.00005 m above max(initial, 0.01 m), and
\* <= the initial diameter when that is >= 0.01 m and has 4 decimals.
C3_WithinRoundedInitialAndFloor ==
    (Corroded /\ age >= 0 /\ initial_diameter > 0)
        => /\ reduced_diameter >= 10000
           /\ 2 * reduced_diameter <= 2 * Max(initial_diameter, 10000) + 100
           /\ (initial_diameter >= 10000 /\ initial_diameter % 100 = 0
                  => reduced_diameter <= initial_diameter)

\* C3 witness: a corroded pipe held at the floor, below its initial diameter.
C3_Witness ==
    /\ Corroded /\ age > 0 /\ initial_diameter > 10000
    /\ initial_diameter - 2 * BaseCorrosionRate(material) * age < 10000
    /\ reduced_diameter = 10000

\* C4 as stated: the effective diameter equals
\* max(initial - 2 * (baseCorrosionRate / 1000) * age, 0.01), for the
\* ages >= 0 and initial diameters > 0 of the data model.
C4_ExactLinearLoss ==
    (Corroded /\ age >= 0 /\ initial_diameter > 0)
        => reduced_diameter = ExactDiameter

\* C4 amended: the effective diameter equals
\* max(initial - 2 * (baseCorrosionRate / 1000) * age, 0.01) rounded to 4
\* decimals: a multiple of 0.0001 m within 0.00005 m of it.
C4_RoundedLinearLoss ==
    Corroded => /\ reduced_diameter % 100 = 0
                /\ 2 * Abs(reduced_diameter - ExactDiameter) <= 100

\* C4 witness: Steel, age 10, 0.5 m gives 0.496 m.
C4_Witness ==
    /\ Corroded
    /\ material = "Steel" /\ age = 10 /\ initial_diameter = 500000
    /\ reduced_diameter = 496000

\* C5: for a fixed material and initial diameter the effective diameter is
\* non-increasing in age: an older pipe (a2 >= age) is no wider, a younger
\* one (0 <= a2 <= age) no narrower than the pipe of this run.
C5_MonotoneInAge ==
    (Corroded /\ age >= 0) =>
        \A a2 \in 0..MaxAge, tieUp \in BOOLEAN :
            calculate_pipe_diameter_reduction(material, age, initial_diameter, tieUp)
                    = reduced_diameter
                => LET d2 == calculate_pipe_diameter_reduction(
                                 material, a2, initial_diameter, tieUp)
                   IN  /\ (a2 >= age => d2 <= reduced_diameter)
                       /\ (a2 <= age => d2 >= reduced_diameter)

\* C5 witness: a pipe that an older age makes strictly narrower.
C5_Witness ==
    /\ Corroded /\ age >= 0 /\ age < MaxAge
    /\ calculate_pipe_diameter_reduction(material, MaxAge, initial_diameter, TRUE)
           < reduced_diameter

\* C6: an unrecognized material raises no error and is given Cast Iron's
\* constants in both lookups: roughness 100, and the diameter reduction of
\* 0.1 mm/year.
C6_UnknownMaterialIsCastIron ==
    (Corroded /\ stdin.material \notin Recognized)
        => /\ roughness = 100
           /\ reduced_diameter % 100 = 0
           /\ 2 * Abs(reduced_diameter
                        - Max(stdin.initial_diameter - 2 * 100 * stdin.age, 10000))
                  <= 100
           /\ (pc = "first" => exc = "none")

\* C6 witness: a finished run for an unrecognized material, its diameter
\* reduced by 2 * 0.1 mm * 10 years.
C6_Witness ==
    /\ pc = "done"
    /\ stdin.material \notin Recognized
    /\ stdin.age = 10 /\ stdin.initial_diameter = 500000
    /\ data.reduced_diameter_meters = 498000
    /\ roughness = 100

\* the section times of sections 1 .. k, summed in order
RECURSIVE SumSections(_)
SumSections(k) ==
    IF k = 0 THEN Fin(0)
    ELSE TimeAdd(SumSections(k - 1),
                 SectionTime(slopes[k][2],
                      calculate_velocity(reduced_diameter, slopes[k][1], roughness).v))

\* the flow rates of pumps 1 .. k, summed
RECURSIVE SumPumps(_)
SumPumps(k) == IF k = 0 THEN 0 ELSE SumPumps(k - 1) + pumps[k][1]

\* C7: once the sections are accumulated each pump is applied once, in input
\* order: after pumps 1 .. j-1 the total is the sum of the section times
\* minus the sum of their flow rates, whatever their positions, and the
\* total reported is the sum of the section times minus all flow rates.
C7_TotalIsSectionsMinusPumps ==
    (pc \in {"pumps", "done"})
        => /\ total_time = TimeSub(SumSections(Len(slopes)), SumPumps(j - 1))
           /\ (pc = "done"
                  => data.travel_time_seconds
                         = TimeSub(SumSections(Len(slopes)), SumPumps(Len(pumps))))

\* C7 witness: a finished run of two sections with flow and two pumps at
\* different positions, 0.05 and 2.0 m3/s: 2.05 less than the section times.
C7_Witness ==
    /\ pc = "done"
    /\ Len(slopes) = 2 /\ Len(pumps) = 2
    /\ pumps[1][2] # pumps[2][2]
    /\ ~IsInf(SumSections(2))
    /\ data.travel_time_seconds = Fin(SumSections(2)[2] - 2050)

\* C8: a non-positive initial diameter or section length is rejected before
\* any section is accumulated, and no total is produced from it.
C8_InvalidGeometryRejected ==
    (\/ stdin.initial_diameter <= 0
     \/ \E k \in 1..Len(stdin.slopes) : stdin.slopes[k][2] <= 0)
        => (i <= 1 /\ pc \notin {"pumps", "done"})

\* C9: the velocity that divides a section's length is not rounded, so a
\* section of positive slope in a pipe of positive diameter has a velocity
\* > 0 and a finite section time.
C9_PositiveSlopeHasFiniteTime ==
    (/\ Accumulating /\ i > 1
     /\ slopes[i - 1][1] > 0
     /\ initial_diameter > 0 /\ current_diameter > 0)
        => (velocity > 0 /\ ~IsInf(section_time))

\* a step of main from the first velocity on, as C10 has it
DiameterHeldStep ==
    pc \in {"first", "slopes", "pumps"}
        => /\ reduced_diameter' = reduced_diameter
           /\ current_diameter' = reduced_diameter
           /\ (pc = "slopes" /\ pc' # "raised"
                  => velocity' = calculate_velocity(reduced_diameter,
                                                    slopes[i][1], roughness).v)
           /\ (pc' = "done"
                  => data'.reduced_diameter_meters = reduced_diameter)

\* C10: the effective diameter is computed once, before the loop over the
\* sections: no step of either loop changes it, each section's velocity is
\* computed with it, and the diameter reported equals it.
C10_DiameterHeld == [][DiameterHeldStep]_vars

\* C10 witness: a finished run of two sections and a pump that reports the
\* corroded diameter computed before the loops.
C10_Witness ==
    /\ pc = "done"
    /\ Len(slopes) = 2 /\ Len(pumps) >= 1
    /\ reduced_diameter = 496000
    /\ current_diameter = reduced_diameter
    /\ data.reduced_diameter_meters = reduced_diameter

\* t <= u as floats: inf is above every finite time
TimeLeq(t, u) == IsInf(u) \/ (~IsInf(t) /\ t[2] <= u[2])

\* a step of main, as C11 has it: a step of the loop over slopes at a
\* section of length > 0 does not lower the running total, and a step that
\* is neither of the loop over slopes nor of the loop over pumps leaves it
RunningTotalStep ==
    /\ (pc = "slopes" /\ slopes[i][2] > 0) => TimeLeq(total_time, total_time')
    /\ (pc \notin {"slopes", "pumps"}) => total_time' = total_time

\* C11: during the loop over the slope sections the running total never
\* decreases from one section step to the next, for sections of length > 0;
\* only the steps of the loop over pumps may lower it.
C11_TotalNeverDecreasesOverSections == [][RunningTotalStep]_vars

\* C11 witness: two sections of length > 0 with flow accumulated, the total
\* finite and grown past the last section's own time.
C11_Witness ==
    /\ pc = "pumps" /\ i = 3
    /\ slopes[1][2] > 0 /\ slopes[2][2] > 0
    /\ ~IsInf(total_time) /\ ~IsInf(section_time)
    /\ section_time[2] > 0
    /\ total_time[2] > section_time[2]

====
